---- MODULE Spec2Model ----
(***************************************************************************)
(* Model of the VectorSearch index (nodejs-cli/vector_search.js) and of    *)
(* the command-line driver that feeds it (nodejs-cli/app.js).              *)
(*                                                                         *)
(* Encoding of JavaScript values:                                          *)
(*  - an object is a function from its property names to values; a         *)
(*    property whose value is undefined is modelled as an absent key       *)
(*    (reading either yields undefined);                                   *)
(*  - a string is a sequence of one-character strings, so that trim() and  *)
(*    toLowerCase() can be computed;                                       *)
(*  - vector components and norms are small integers, which Float32Array   *)
(*    and the double arithmetic of the code represent exactly; vectors are *)
(*    chosen with an integral Euclidean norm so that Math.hypot is exact;  *)
(*  - a score (a double) is a record: a reduced fraction, NaN or +-Inf.    *)
(***************************************************************************)
EXTENDS Integers, Sequences, FiniteSets, TLC

VARIABLES
    docs,       \* this.docs of the VectorSearch instance
    call,       \* the last method call made on the index, with its arguments
    ret,        \* what that call returned or threw
    pc,         \* position of the driver's main function
    input,      \* the parsed JSON document collection (app.js: docs)
    batchSize,  \* app.js: BATCH_SIZE
    i,          \* app.js: loop variable i of the batching loop (0-based)
    counter,    \* app.js: counter
    embedder,   \* the feature-extraction pipeline: text -> vector
    gateway,    \* log of the calls made to embedBatch
    loads,      \* log of the arguments passed to index.loadDocs by the driver
    queryText   \* --query

vars == <<docs, call, ret, pc, input, batchSize, i, counter, embedder, gateway,
          loads, queryText>>

appVars == <<pc, input, batchSize, i, counter, embedder, gateway, loads, queryText>>

-----------------------------------------------------------------------------
(* Bounds *)

MaxDocs == 2
MaxN == 3
MaxBatch == 3

-----------------------------------------------------------------------------
(* Generic helpers *)

Min(a, b) == IF a < b THEN a ELSE b
Max(a, b) == IF a > b THEN a ELSE b
Abs(a) == IF a < 0 THEN -a ELSE a

RECURSIVE GCD(_, _)
GCD(a, b) == IF b = 0 THEN a ELSE GCD(b, a % b)

\* The properties of object d named in keys (absent ones stay absent).
Pick(d, keys) == [key \in (DOMAIN d \cap keys) |-> d[key]]

\* Object rest pattern: { id, vector, norm, ...rest }
Rest(d) == Pick(d, DOMAIN d \ {"id", "vector", "norm"})

-----------------------------------------------------------------------------
(* Doubles as they arise in scoring *)

NaN == [k |-> "nan", n |-> 0, d |-> 1]
Inf(s) == [k |-> "inf", n |-> s, d |-> 1]

\* The finite number n/d (d # 0), as a reduced fraction with positive denominator.
Fin(n, d) ==
    LET g == GCD(Abs(n), Abs(d))
        s == IF d < 0 THEN -1 ELSE 1
    IN [k |-> "fin", n |-> (s * n) \div g, d |-> (s * d) \div g]

IsNaN(x) == x.k = "nan"

\* a + b on finite numbers or NaN
NumAdd(a, b) ==
    IF IsNaN(a) \/ IsNaN(b) THEN NaN
    ELSE Fin(a.n * b.d + b.n * a.d, a.d * b.d)

\* a / b  (IEEE 754: x/0 is +-Infinity, 0/0 is NaN)
NumDiv(a, b) ==
    IF IsNaN(a) \/ IsNaN(b) THEN NaN
    ELSE IF b.n = 0
         THEN IF a.n = 0 THEN NaN ELSE Inf(IF a.n > 0 THEN 1 ELSE -1)
         ELSE Fin(a.n * b.d, a.d * b.n)

\* a - b  (Infinity - Infinity is NaN)
NumSub(a, b) ==
    IF IsNaN(a) \/ IsNaN(b) THEN NaN
    ELSE IF a.k = "inf" /\ b.k = "inf"
         THEN IF a.n = b.n THEN NaN ELSE Inf(a.n)
    ELSE IF a.k = "inf" THEN Inf(a.n)
    ELSE IF b.k = "inf" THEN Inf(-b.n)
    ELSE Fin(a.n * b.d - b.n * a.d, a.d * b.d)

\* sign of a number; NaN has none
NumSign(x) == IF IsNaN(x) THEN 0 ELSE IF x.n > 0 THEN 1 ELSE IF x.n < 0 THEN -1 ELSE 0

-----------------------------------------------------------------------------
(* Strings *)

ToLowerCase(s) ==
    [j \in DOMAIN s |-> IF s[j] = "A" THEN "a" ELSE IF s[j] = "B" THEN "b" ELSE s[j]]

RECURSIVE TrimStart(_)
TrimStart(s) == IF s # <<>> /\ Head(s) = " " THEN TrimStart(Tail(s)) ELSE s

RECURSIVE TrimEnd(_)
TrimEnd(s) ==
    IF s # <<>> /\ s[Len(s)] = " " THEN TrimEnd(SubSeq(s, 1, Len(s) - 1)) ELSE s

\* a faulty trim: only leading whitespace is removed
TrimStartOnly(s) == TrimStart(s)

\* String.prototype.trim
Trim(s) == TrimEnd(TrimStart(s))

-----------------------------------------------------------------------------
(* Vectors *)

\* Float32Array.from(vector): a fresh array of the components; the model's
\* components are integers below 2^24, which float32 holds exactly.
Float32From(vector) == [j \in 1..Len(vector) |-> vector[j]]

RECURSIVE SumSq(_)
SumSq(v) == IF v = <<>> THEN 0 ELSE Head(v) * Head(v) + SumSq(Tail(v))

\* Math.hypot(...vec); Math.hypot() is 0.  Exact on the model's vectors,
\* whose sum of squares is a perfect square.
Hypot(vec) == CHOOSE r \in 0..SumSq(vec) : r * r = SumSq(vec)

\* for (let i = 0; i < q.length; i++) dot += q[i] * vector[i];
\* vector[i] past the end of the typed array is undefined, and the product NaN.
RECURSIVE DotLoop(_, _, _, _)
DotLoop(q, vector, j, dot) ==
    IF j > Len(q) THEN dot
    ELSE DotLoop(q, vector, j + 1,
                 NumAdd(dot, IF j <= Len(vector) THEN Fin(q[j] * vector[j], 1) ELSE NaN))

-----------------------------------------------------------------------------
(* VectorSearch *)

\* add(id, vector): the entry pushed
AddEntry(id, vector) ==
    LET vec == Float32From(vector)
    IN [id |-> id, vector |-> vec, norm |-> Hypot(vec)]

\* loadDocs' callback: Float32Array.from(undefined) throws a TypeError
LoadThrows(doc) == "vector" \notin DOMAIN doc

\* loadDocs' callback: the entry pushed for one element
LoadEntry(doc) ==
    [vector |-> Float32From(doc.vector)] @@ Pick(doc, {"id", "norm"}) @@ Rest(doc)

\* docs.forEach(...): elements are pushed one by one until one throws
RECURSIVE LoadEach(_, _)
LoadEach(store, items) ==
    IF items = <<>> THEN [docs |-> store, threw |-> FALSE]
    ELSE IF LoadThrows(Head(items)) THEN [docs |-> store, threw |-> TRUE]
    ELSE LoadEach(Append(store, LoadEntry(Head(items))), Tail(items))

\* search's map callback: the scored result for one entry;
\* an undefined norm makes norm * qNorm NaN
ScoreEntry(entry, q, qNorm) ==
    LET dot == DotLoop(q, entry.vector, 1, Fin(0, 1))
        den == IF "norm" \in DOMAIN entry THEN Fin(entry.norm * qNorm, 1) ELSE NaN
    IN Rest(entry) @@ Pick(entry, {"id"}) @@ [score |-> NumDiv(dot, den)]

\* the comparator (a, b) => b.score - a.score, as Array.prototype.sort reads it:
\* a NaN result counts as +0
Cmp(a, b) == NumSign(NumSub(b.score, a.score))

\* ECMAScript's "consistent comparator" over the elements of s
Consistent(s) ==
    /\ \A x \in DOMAIN s : Cmp(s[x], s[x]) = 0
    /\ \A x \in DOMAIN s, y \in DOMAIN s : Cmp(s[x], s[y]) = -Cmp(s[y], s[x])
    /\ \A x \in DOMAIN s, y \in DOMAIN s :
          LET c == Cmp(s[x], s[y])
          IN \A z \in DOMAIN s : Cmp(s[y], s[z]) = c => Cmp(s[x], s[z]) = c

\* x inserted into the sorted sequence s behind every element not after it
RECURSIVE InsertSorted(_, _)
InsertSorted(s, x) ==
    IF s # <<>> /\ Cmp(s[Len(s)], x) > 0
    THEN Append(InsertSorted(SubSeq(s, 1, Len(s) - 1), x), s[Len(s)])
    ELSE Append(s, x)

\* the stable sort of s by Cmp
RECURSIVE StableSort(_)
StableSort(s) ==
    IF s = <<>> THEN <<>>
    ELSE InsertSorted(StableSort(SubSeq(s, 1, Len(s) - 1)), s[Len(s)])

Perms(n) == {p \in [1..n -> 1..n] : \A a \in 1..n, b \in 1..n : p[a] = p[b] => a = b}

\* Array.prototype.sort: stable under a consistent comparator; under an
\* inconsistent one the order is implementation-defined (some permutation).
SortOutcomes(s) ==
    IF Consistent(s) THEN {StableSort(s)}
    ELSE {[j \in 1..Len(s) |-> s[p[j]]] : p \in Perms(Len(s))}

\* Array.prototype.slice(start, end) for integer arguments
RelIndex(len, x) == IF x < 0 THEN Max(len + x, 0) ELSE Min(x, len)
Slice(s, start, end) ==
    LET from == RelIndex(Len(s), start)
        to == RelIndex(Len(s), end)
    IN IF to <= from THEN <<>> ELSE SubSeq(s, from + 1, to)

\* this.docs.map(...): a new array of the scored results, in store order
RECURSIVE ScoreAll(_, _, _)
ScoreAll(store, q, qNorm) ==
    IF store = <<>> THEN <<>>
    ELSE <<ScoreEntry(Head(store), q, qNorm)>> \o ScoreAll(Tail(store), q, qNorm)

\* search before its slice: the orders .map(...).sort(...) can produce
SearchSorted(store, queryVec) ==
    LET q == Float32From(queryVec)
        qNorm == Hypot(q)
    IN SortOutcomes(ScoreAll(store, q, qNorm))

\* the values search(queryVec, k) can return on the store
SearchResults(store, queryVec, k) ==
    {Slice(sorted, 0, k) : sorted \in SearchSorted(store, queryVec)}

\* properties whose values are strings in the model (typeof value === 'string')
StringAttrs == {"id", "header", "text_block", "tag"}

\* textSearch's loop from position j on
RECURSIVE TextScan(_, _, _, _)
TextScan(store, loweredText, attr, j) ==
    IF j > Len(store) THEN [kind |-> "null", val |-> <<>>]
    ELSE IF /\ attr \in DOMAIN store[j]
            /\ attr \in StringAttrs
            /\ ToLowerCase(Trim(store[j][attr])) = loweredText
         THEN [kind |-> "doc", val |-> store[j]]
         ELSE TextScan(store, loweredText, attr, j + 1)

\* textSearch(text, attr); text is [isString, val]
TextSearchResult(store, text, attr) ==
    IF ~text.isString THEN [kind |-> "null", val |-> <<>>]
    ELSE TextScan(store, ToLowerCase(Trim(text.val)), attr, 1)

-----------------------------------------------------------------------------
(* Argument domains *)

Sa == <<"a">>
SA == <<" ", "A">>
Sb == <<"b">>

\* add(id, vector) calls: unit and non-unit vectors, a tie (<<1, 0>> and
\* <<2, 0>> point the same way), the zero vector, a vector of another length
AddArgs ==
    { [id |-> Sa, vector |-> <<1, 0>>],
      [id |-> SA, vector |-> <<2, 0>>],
      [id |-> Sb, vector |-> <<0, 1>>],
      [id |-> Sb, vector |-> <<0, 0>>],
      [id |-> Sa, vector |-> <<1>>] }
Queries == {<<1, 0>>, <<3, 4>>, <<0, 0>>}
Ks == {-1, 0, 1, 10}

LoadArgs ==
    { [isArray |-> FALSE, items |-> <<>>],
      [isArray |-> TRUE, items |-> <<>>],
      [isArray |-> TRUE, items |-> <<[id |-> Sa, vector |-> <<3, 4>>, norm |-> 5, header |-> SA]>>],
      [isArray |-> TRUE, items |-> <<[vector |-> <<1, 0>>, norm |-> 1, header |-> Sb, tag |-> Sa]>>],
      [isArray |-> TRUE, items |-> <<[id |-> Sb, vector |-> <<0, 1>>, norm |-> 0]>>],
      [isArray |-> TRUE, items |-> <<[id |-> Sb, vector |-> <<1, 0>>]>>],
      [isArray |-> TRUE, items |-> <<[id |-> Sa, vector |-> <<2, 0>>, norm |-> 1], [id |-> Sb, header |-> Sb]>>] }

Texts == { [isString |-> TRUE, val |-> Sa], [isString |-> TRUE, val |-> <<"B", " ">>],
           [isString |-> FALSE, val |-> <<>>] }
Attrs == {"header", "id", "vector"}

-----------------------------------------------------------------------------
(* The index used as a library: any sequence of calls *)

Init ==
    /\ docs = <<>>
    /\ call = [op |-> "new"]
    /\ ret = [kind |-> "undefined", val |-> <<>>]
    /\ pc = "lib"
    /\ input = <<>>
    /\ batchSize = 0
    /\ i = 0
    /\ counter = 0
    /\ embedder = <<>>
    /\ gateway = <<>>
    /\ loads = <<>>
    /\ queryText = <<>>

Add ==
    \E a \in AddArgs :
        /\ Len(docs) < MaxDocs
        /\ docs' = Append(docs, AddEntry(a.id, a.vector))
        /\ call' = [op |-> "add", id |-> a.id, vector |-> a.vector]
        /\ ret' = [kind |-> "undefined", val |-> <<>>]
        /\ UNCHANGED appVars

LoadDocs ==
    \E arg \in LoadArgs :
        /\ Len(docs) + Len(arg.items) <= MaxDocs
        /\ call' = [op |-> "loadDocs", arg |-> arg]
        /\ IF ~arg.isArray
           THEN /\ docs' = docs
                /\ ret' = [kind |-> "throw", val |-> "TypeError"]
           ELSE LET r == LoadEach(docs, arg.items)
                IN /\ docs' = r.docs
                   /\ ret' = IF r.threw THEN [kind |-> "throw", val |-> "TypeError"]
                             ELSE [kind |-> "undefined", val |-> <<>>]
        /\ UNCHANGED appVars

\* a faulty search: the store itself is sorted, as this.docs.sort(...) would
SearchSortsInPlace ==
    \E queryVec \in Queries :
        LET q == Float32From(queryVec)
            scored == ScoreAll(docs, q, Hypot(q))
        IN \E p \in Perms(Len(docs)) :
            \E k \in Ks :
                /\ [j \in 1..Len(docs) |-> scored[p[j]]] \in SortOutcomes(scored)
                /\ docs' = [j \in 1..Len(docs) |-> docs[p[j]]]
                /\ call' = [op |-> "search", queryVec |-> queryVec, k |-> k]
                /\ ret' = [kind |-> "results",
                           val |-> Slice([j \in 1..Len(docs) |-> scored[p[j]]], 0, k)]
                /\ UNCHANGED appVars

Search ==
    \E queryVec \in Queries :
        \E sorted \in SearchSorted(docs, queryVec) :
            \E k \in Ks :
                /\ call' = [op |-> "search", queryVec |-> queryVec, k |-> k]
                /\ ret' = [kind |-> "results", val |-> Slice(sorted, 0, k)]
                /\ UNCHANGED docs
                /\ UNCHANGED appVars

TextSearch ==
    \E text \in Texts, attr \in Attrs :
        /\ call' = [op |-> "textSearch", text |-> text, attr |-> attr]
        /\ ret' = TextSearchResult(docs, text, attr)
        /\ UNCHANGED docs
        /\ UNCHANGED appVars

Next == Add \/ LoadDocs \/ Search \/ TextSearch

Spec == Init /\ [][Next]_vars

-----------------------------------------------------------------------------
(* The command-line driver (app.js) *)

T1 == <<"a">>
T2 == <<"b">>

\* documents of the data file: each has a header and a text_block; id, vector,
\* norm and further fields are optional
DocInputs ==
    { [header |-> Sa, text_block |-> T1],
      [header |-> Sb, text_block |-> T2, tag |-> Sa],
      [id |-> Sa, header |-> SA, text_block |-> T1, vector |-> <<1, 0>>, norm |-> 1],
      [id |-> Sb, header |-> Sb, text_block |-> T2, vector |-> <<0, 2>>, norm |-> 2, tag |-> Sb] }

Collections == UNION {[1..n -> DocInputs] : n \in 0..MaxN}

\* stub feature-extraction pipelines: one vector per text
Embedders ==
    { (T1 :> <<1, 0>>) @@ (T2 :> <<0, 1>>),
      (T1 :> <<0, 1>>) @@ (T2 :> <<0, 1>>) }

\* embedBatch(textList): one vector per input string, in order
EmbedBatch(textList) == [j \in 1..Len(textList) |-> embedder[textList[j]]]

\* a faulty decision: any document of the collection decides
AnyHasVector(collection) == \E j \in DOMAIN collection : "vector" \in DOMAIN collection[j]

\* docs[0]["vector"] is truthy; reading a property of docs[0] throws on an
\* empty collection
FirstHasVector(collection) == "vector" \in DOMAIN collection[1]

\* a faulty chunk: the batch size passed as slice's end index
ChunkEndIsSize(collection, start, size) == Slice(collection, start, size)

\* docs.slice(i, i + BATCH_SIZE)
Chunk(collection, start, size) == Slice(collection, start, start + size)

\* chunk.map((d) => d.text_block)
TextsOf(chunk) == [j \in 1..Len(chunk) |-> chunk[j].text_block]

\* the inner loop: index.add(chunk[j].header, embeddings[j]) for each j
RECURSIVE AddAll(_, _, _, _)
AddAll(store, chunk, embeddings, j) ==
    IF j > Len(chunk) THEN store
    ELSE AddAll(Append(store, AddEntry(chunk[j].header, embeddings[j])), chunk, embeddings, j + 1)

GatewayCall(purpose, textList) == [purpose |-> purpose, texts |-> textList]

InitApp ==
    /\ docs = <<>>
    /\ call = [op |-> "new"]
    /\ ret = [kind |-> "undefined", val |-> <<>>]
    /\ pc = "start"
    /\ input \in Collections
    /\ batchSize \in 1..MaxBatch
    /\ i = 0
    /\ counter = 0
    /\ embedder \in Embedders
    /\ gateway = <<>>
    /\ loads = <<>>
    /\ queryText \in {T1, T2}

\* app.js up to its first await, on an empty collection: docs[0]["vector"] throws
StartEmpty ==
    /\ pc = "start"
    /\ input = <<>>
    /\ pc' = "crashed"
    /\ UNCHANGED <<docs, call, ret, input, batchSize, i, counter, embedder, gateway,
                   loads, queryText>>

\* app.js up to its first await, first document with a vector: loadDocs(docs),
\* then the query is sent to the pipeline
StartLoad ==
    /\ pc = "start"
    /\ input # <<>>
    /\ FirstHasVector(input)
    /\ LET r == LoadEach(docs, input)
       IN /\ docs' = r.docs
          /\ loads' = Append(loads, input)
          /\ call' = [op |-> "loadDocs", arg |-> [isArray |-> TRUE, items |-> input]]
          /\ IF r.threw
             THEN /\ ret' = [kind |-> "throw", val |-> "TypeError"]
                  /\ pc' = "crashed"
                  /\ gateway' = gateway
             ELSE /\ ret' = [kind |-> "undefined", val |-> <<>>]
                  /\ pc' = "awaitQuery"
                  /\ gateway' = Append(gateway, GatewayCall("query", <<queryText>>))
    /\ UNCHANGED <<input, batchSize, i, counter, embedder, queryText>>

\* app.js up to its first await, first document without a vector: the first
\* chunk is sent to the pipeline
StartEmbed ==
    /\ pc = "start"
    /\ input # <<>>
    /\ ~FirstHasVector(input)
    /\ i' = 0
    /\ gateway' = Append(gateway, GatewayCall("docs", TextsOf(Chunk(input, 0, batchSize))))
    /\ pc' = "awaitBatch"
    /\ UNCHANGED <<docs, call, ret, input, batchSize, counter, embedder, loads, queryText>>

\* the pipeline answers for a chunk: its documents are added, then either the
\* next chunk or (after the loop) the query is sent to the pipeline
BatchEmbedded ==
    /\ pc = "awaitBatch"
    /\ LET chunk == Chunk(input, i, batchSize)
           embeddings == EmbedBatch(TextsOf(chunk))
       IN /\ docs' = AddAll(docs, chunk, embeddings, 1)
          /\ counter' = counter + Len(chunk)
          /\ call' = IF chunk = <<>> THEN call
                     ELSE [op |-> "add", id |-> chunk[Len(chunk)].header,
                           vector |-> embeddings[Len(chunk)]]
          /\ ret' = [kind |-> "undefined", val |-> <<>>]
    /\ i' = i + batchSize
    /\ IF i' < Len(input)
       THEN /\ gateway' = Append(gateway, GatewayCall("docs", TextsOf(Chunk(input, i', batchSize))))
            /\ pc' = "awaitBatch"
       ELSE /\ gateway' = Append(gateway, GatewayCall("query", <<queryText>>))
            /\ pc' = "awaitQuery"
    /\ UNCHANGED <<input, batchSize, embedder, loads, queryText>>

\* the pipeline answers for the query: index.search(qVec, 10)
QueryEmbedded ==
    /\ pc = "awaitQuery"
    /\ LET qVec == EmbedBatch(<<queryText>>)[1]
       IN \E results \in SearchResults(docs, qVec, 10) :
            /\ call' = [op |-> "search", queryVec |-> qVec, k |-> 10]
            /\ ret' = [kind |-> "results", val |-> results]
    /\ pc' = "done"
    /\ UNCHANGED <<docs, input, batchSize, i, counter, embedder, gateway, loads, queryText>>

NextApp == StartEmpty \/ StartLoad \/ StartEmbed \/ BatchEmbedded \/ QueryEmbedded

SpecApp == InitApp /\ [][NextApp]_vars

-----------------------------------------------------------------------------
(* Properties of the index used as a library (Spec) *)

\* x >= y as doubles compare: false whenever NaN is involved
NumGeq(x, y) == ~IsNaN(x) /\ ~IsNaN(y) /\ (x = y \/ NumSign(NumSub(x, y)) > 0)

\* the results of the last search, each entry of the store scored
Scored == LET q == Float32From(call.queryVec)
          IN [j \in 1..Len(docs) |-> ScoreEntry(docs[j], q, Hypot(q))]

\* C1: search returns the entries by descending score, entries of equal score
\* in the order of their insertion.
C1_DescendingStable ==
    call.op = "search" =>
        \E p \in Perms(Len(docs)) :
            LET full == [j \in 1..Len(docs) |-> Scored[p[j]]]
            IN /\ \A a \in 1..Len(docs), b \in 1..Len(docs) :
                    a < b => /\ NumGeq(full[a].score, full[b].score)
                             /\ full[a].score = full[b].score => p[a] < p[b]
               /\ Len(ret.val) <= Len(full)
               /\ ret.val = SubSeq(full, 1, Len(ret.val))

\* C2: search(q, k) returns min(k, N) results for k >= 1 and none for k <= 0.
C2_ResultCount ==
    call.op = "search" =>
        Len(ret.val) = IF call.k <= 0 THEN 0 ELSE Min(call.k, Len(docs))

\* C3: no result of search carries a NaN or infinite score, and with a
\* zero-norm query every score is 0.
C3_ScoresFinite ==
    call.op = "search" =>
        \A a \in DOMAIN ret.val :
            /\ ret.val[a].score.k = "fin"
            /\ SumSq(call.queryVec) = 0 => ret.val[a].score = Fin(0, 1)

\* C7: loadDocs throws exactly when its input is not an array or an element
\* lacks an id or a vector.
C7_LoadRejectsIllFormed ==
    call.op = "loadDocs" =>
        (ret.kind = "throw") =
            (\/ ~call.arg.isArray
             \/ \E j \in DOMAIN call.arg.items :
                    ~({"id", "vector"} \subseteq DOMAIN call.arg.items[j]))

\* C8: all stored entries have vectors of the same length.
C8_SameDimension ==
    \A a \in DOMAIN docs, b \in DOMAIN docs : Len(docs[a].vector) = Len(docs[b].vector)

IsPrefix(s, t) == Len(s) <= Len(t) /\ s = SubSeq(t, 1, Len(s))

\* C9: every call leaves the existing entries of the store in place; search and
\* textSearch leave the store as it is, add appends exactly its entry, and
\* loadDocs appends entries of its elements, in their order.
C9_AppendOnly ==
    [][ /\ IsPrefix(docs, docs')
        /\ call'.op \in {"search", "textSearch"} => docs' = docs
        /\ call'.op = "add" =>
              /\ Len(docs') = Len(docs) + 1
              /\ docs'[Len(docs')].id = call'.id
              /\ docs'[Len(docs')].vector = call'.vector
        /\ call'.op = "loadDocs" =>
              /\ Len(docs') <= Len(docs) + Len(call'.arg.items)
              /\ \A j \in 1..(Len(docs') - Len(docs)) :
                    docs'[Len(docs) + j].vector = call'.arg.items[j].vector
      ]_vars

\* a search on two entries returned them in the opposite order of the store
C9_Witness ==
    /\ call.op = "search"
    /\ Len(docs) = 2
    /\ Len(ret.val) = 2
    /\ ret.val[1].score = Scored[2].score
    /\ ret.val[1].score # Scored[1].score

\* the string without its leading and trailing spaces
Stripped(s) ==
    LET ns == {j \in DOMAIN s : s[j] # " "}
    IN IF ns = {} THEN <<>>
       ELSE SubSeq(s, CHOOSE j \in ns : \A m \in ns : j <= m,
                      CHOOSE j \in ns : \A m \in ns : j >= m)

SameLetter(c, e) == c = e \/ {c, e} = {"a", "A"} \/ {c, e} = {"b", "B"}

\* entry's attr is a string equal to text up to surrounding space and case
Matches(entry, text, attr) ==
    /\ attr \in DOMAIN entry
    /\ attr \in StringAttrs
    /\ LET s == Stripped(entry[attr])
           t == Stripped(text)
       IN Len(s) = Len(t) /\ \A j \in DOMAIN s : SameLetter(s[j], t[j])

-----------------------------------------------------------------------------
(* Properties of the driver (SpecApp) *)

\* the first document of the collection carries a vector
LoadPath == input # <<>> /\ "vector" \in DOMAIN input[1]
EmbedPath == input # <<>> /\ "vector" \notin DOMAIN input[1]

RECURSIVE Concat(_)
Concat(ss) == IF ss = <<>> THEN <<>> ELSE Head(ss) \o Concat(Tail(ss))

\* the texts sent to the pipeline for documents, call after call
DocTextsSent == Concat([j \in 1..Len(gateway) |->
                           IF gateway[j].purpose = "docs" THEN gateway[j].texts ELSE <<>>])

\* C4: on the embed path the build ends with one entry per document, the j-th
\* made of the j-th document's header and the embedding of its text.
C4_OrderPreservingBuild ==
    /\ (EmbedPath /\ pc = "awaitBatch") => Len(docs) = i
    /\ (EmbedPath /\ pc \in {"awaitQuery", "done"}) => Len(docs) = Len(input)
    /\ EmbedPath =>
          \A j \in DOMAIN docs :
              /\ docs[j].id = input[j].header
              /\ docs[j].vector = embedder[input[j].text_block]

\* a build of three documents in batches of two has finished, its first two
\* entries differing in id and in vector
C4_Witness ==
    /\ EmbedPath
    /\ pc = "done"
    /\ Len(input) = 3
    /\ batchSize = 2
    /\ Len(docs) = 3
    /\ docs[1].id # docs[2].id
    /\ docs[1].vector # docs[2].vector

\* C5: the first document alone decides: with a vector the whole collection
\* goes through loadDocs and no document is sent to the pipeline; without,
\* every document is sent to the pipeline and loadDocs is never called.
C5_FirstDocumentDecides ==
    /\ LoadPath => /\ DocTextsSent = <<>>
                   /\ \A j \in DOMAIN gateway : gateway[j].purpose = "query"
                   /\ pc # "start" => loads = <<input>>
    /\ EmbedPath => /\ loads = <<>>
                    /\ pc \in {"awaitQuery", "done"} =>
                          DocTextsSent = [j \in 1..Len(input) |-> input[j].text_block]
    /\ pc = "start" => loads = <<>> /\ gateway = <<>>

\* a collection whose first document has no vector and whose second has one
\* was embedded whole, in more than one batch, and the run has finished
C5_Witness ==
    /\ Len(input) >= 2
    /\ "vector" \notin DOMAIN input[1]
    /\ "vector" \in DOMAIN input[2]
    /\ pc = "done"
    /\ Len(gateway) >= 3
    /\ DocTextsSent = [j \in 1..Len(input) |-> input[j].text_block]
    /\ loads = <<>>

\* C6: every field of a document besides id, vector and norm is kept on its
\* entry and comes back in every search result for it.
C6_MetadataEchoed ==
    pc = "done" =>
        /\ \A j \in DOMAIN docs : Rest(docs[j]) = Rest(input[j])
        /\ \A a \in DOMAIN ret.val :
              \E j \in DOMAIN input :
                  Rest(input[j]) = Pick(ret.val[a], DOMAIN ret.val[a] \ {"id", "score"})

====
